---- MODULE Spec2Model ----
(***************************************************************************)
(* A model of the midi degradation toolkit: the excerpt windowing          *)
(* (measure_errors.get_df_excerpt), the degradation operators              *)
(* (mdtk.degradations.pitch_shift, remove_note), the note-level and        *)
(* excerpt-level classifiers (get_note_degs, get_excerpt_degs) and the     *)
(* proportion estimator (get_proportions), and the overwrite policy of     *)
(* the file helpers (mdtk.filesystem_utils).                               *)
(*                                                                         *)
(* A note data frame is a sequence of rows; a row carries its pandas index *)
(* label (idx) and the four note columns. Objects live in a heap so that   *)
(* a copy and an alias of the caller's data frame are different things.    *)
(***************************************************************************)
EXTENDS Integers, Sequences, FiniteSets

VARIABLES
    heap,        \* object id -> data frame (rows); object 0 is the caller's
    pc,          \* position of the call in flight
    call,        \* the call in flight or last finished: name and arguments
    frame,       \* locals of the call in flight
    result,      \* how the last call ended: returned object or raised error
    gt_note,     \* get_note_degs / get_excerpt_degs: arguments and result
    trans_note,
    gt_excerpt,
    trans_excerpt,
    deg_counts,
    gp,          \* get_proportions: its arguments and locals
    fs           \* a file helper call: its arguments, the target, what it emitted

vars == <<heap, pc, call, frame, result,
          gt_note, trans_note, gt_excerpt, trans_excerpt, deg_counts, gp, fs>>

(***************************************************************************)
(* Bounds of the model.                                                    *)
(***************************************************************************)
MaxTime == 3      \* latest note offset (ms) of a generated note
MaxLen == 2       \* most notes in a generated data frame
MaxDraw == 2      \* rand.randint outcomes examined at each end of a range

Pitches == {60, 61}
Tracks == {0}

None == <<>>
Some(x) == <<x>>

Max(a, b) == IF a >= b THEN a ELSE b
Min(a, b) == IF a <= b THEN a ELSE b
Abs(x) == IF x < 0 THEN -x ELSE x

(***************************************************************************)
(* Notes and data frames.                                                  *)
(***************************************************************************)
Notes ==
    {n \in [onset : 0..MaxTime, track : Tracks, pitch : Pitches, dur : 1..MaxTime] :
        n.onset + n.dur <= MaxTime}

NoteSeqs == UNION {[1..k -> Notes] : k \in 0..MaxLen}

\* A freshly loaded data frame: rows labelled 0..n-1 in order (RangeIndex).
Row(label, n) ==
    [idx |-> label, onset |-> n.onset, track |-> n.track, pitch |-> n.pitch, dur |-> n.dur]

DataFrame(notes) == [i \in 1..Len(notes) |-> Row(i - 1, notes[i])]

NoteOf(row) ==
    [onset |-> row.onset, track |-> row.track, pitch |-> row.pitch, dur |-> row.dur]

Labels(df) == {df[i].idx : i \in 1..Len(df)}

\* df.loc[label]: the row carrying the label
Loc(df, label) == df[CHOOSE i \in 1..Len(df) : df[i].idx = label]

\* df.loc[mask]: the rows whose mask entry is true, in order
SelectRows(df, mask) ==
    LET F[i \in 0..Len(df)] ==
            IF i = 0 THEN <<>>
            ELSE IF mask[i] THEN Append(F[i - 1], df[i]) ELSE F[i - 1]
    IN F[Len(df)]

(***************************************************************************)
(* get_df_excerpt                                                          *)
(***************************************************************************)
need_to_shift(df, start_time) ==
    [i \in 1..Len(df) |->
        df[i].onset < start_time /\ df[i].onset + df[i].dur > start_time]

\* A shift that moves the onset and leaves the duration as it was (no line 59)
ShiftOnsetsKeepDur(df, start_time) ==
    LET m == need_to_shift(df, start_time)
    IN [i \in 1..Len(df) |->
          IF m[i] THEN [df[i] EXCEPT !.onset = start_time] ELSE df[i]]

ShiftOnsets(df, start_time) ==
    LET m == need_to_shift(df, start_time)
    IN [i \in 1..Len(df) |->
          IF m[i]
          THEN [df[i] EXCEPT !.onset = start_time,
                             !.dur = df[i].dur - (start_time - df[i].onset)]
          ELSE df[i]]

need_to_shorten(df, end_time) ==
    [i \in 1..Len(df) |->
        df[i].onset < end_time[1] /\ df[i].onset + df[i].dur > end_time[1]]

\* A shortening that stores the end time itself as the duration
ShortenToEndTime(df, end_time) ==
    IF end_time = None THEN df
    ELSE LET m == need_to_shorten(df, end_time)
         IN [i \in 1..Len(df) |->
               IF m[i] THEN [df[i] EXCEPT !.dur = end_time[1]] ELSE df[i]]

Shorten(df, end_time) ==
    IF end_time = None THEN df
    ELSE LET m == need_to_shorten(df, end_time)
         IN [i \in 1..Len(df) |->
               IF m[i] THEN [df[i] EXCEPT !.dur = end_time[1] - df[i].onset]
               ELSE df[i]]

\* A keep mask whose end bound is inclusive
to_keep_inclusive(df, start_time, end_time) ==
    [i \in 1..Len(df) |->
        /\ df[i].onset >= start_time
        /\ (end_time # None => df[i].onset <= end_time[1])]

to_keep(df, start_time, end_time) ==
    [i \in 1..Len(df) |->
        /\ df[i].onset >= start_time
        /\ (end_time # None => df[i].onset < end_time[1])]

\* The data frame the call works on after lines 54-67, before the drop.
ClipRows(df, start_time, end_time) == Shorten(ShiftOnsets(df, start_time), end_time)

get_df_excerpt(df, start_time, end_time) ==
    LET clipped == ClipRows(df, start_time, end_time)
    IN SelectRows(clipped, to_keep(clipped, start_time, end_time))

(***************************************************************************)
(* The heap. Object 0 is the data frame the caller holds; object 1 is the  *)
(* copy a call makes of it; object 2 is the frame df.loc[to_keep] builds.  *)
(***************************************************************************)
ObjIds == {0, 1, 2}
CallerObj == 0
CopyObj == 1
SliceObj == 2

\* What is left when a call starts: the caller's object alone.
Fresh(h) == [o \in ObjIds |-> IF o = CallerObj THEN h[CallerObj] ELSE <<>>]

\* A call that binds its local name to the caller's own object (no copy).
DataFrameAlias(h, ref) == [heap |-> h, ref |-> ref]

\* note_df.copy(): a new object holding the same rows
DataFrameCopy(h, ref) == [heap |-> [h EXCEPT ![CopyObj] = h[ref]], ref |-> CopyObj]

\* excerpt.copy() of a Composition: a value copy, not an alias
CompositionCopy(h, ref) == [heap |-> [h EXCEPT ![CopyObj] = h[ref]], ref |-> CopyObj]

Returned(ref) == [kind |-> "returned", ref |-> ref, exc |-> "none"]
Raised(exc) == [kind |-> "raised", ref |-> CallerObj, exc |-> exc]
NoResult == [kind |-> "none", ref |-> CallerObj, exc |-> "none"]
NoFrame == [op |-> "none"]
NoCall == [name |-> "none"]

Idle == pc = "idle"

\* rand.randint(low, high): any integer of low..high-1; of a wide range the model
\* draws those within MaxDraw of either end and the pitches notes can have.
Randint(low, high) ==
    {v \in low..(high - 1) : v < low + MaxDraw \/ v >= high - MaxDraw \/ v \in Pitches}

StartTimes == 0..MaxTime
EndTimes == {None} \cup {Some(e) : e \in 0..(MaxTime + 1)}

ClassifierVars == <<gt_note, trans_note, gt_excerpt, trans_excerpt, deg_counts>>

(***************************************************************************)
(* A call of get_df_excerpt(note_df, start_time, end_time) on the caller's *)
(* data frame.                                                             *)
(***************************************************************************)
GetDfExcerpt(start_time, end_time) ==
    /\ Idle
    /\ LET c == DataFrameCopy(Fresh(heap), CallerObj)
           h1 == [c.heap EXCEPT ![c.ref] = ClipRows(c.heap[c.ref], start_time, end_time)]
           kept == SelectRows(h1[c.ref], to_keep(h1[c.ref], start_time, end_time))
       IN /\ heap' = [h1 EXCEPT ![SliceObj] = kept]
          /\ result' = Returned(SliceObj)
    /\ call' = [name |-> "get_df_excerpt", start_time |-> start_time, end_time |-> end_time]
    /\ frame' = NoFrame
    /\ pc' = "returned"
    /\ UNCHANGED <<ClassifierVars, gp, fs>>

CallGetDfExcerpt == \E s \in StartTimes, e \in EndTimes : GetDfExcerpt(s, e)

(***************************************************************************)
(* pitch_shift(excerpt, rand, params)                                      *)
(***************************************************************************)
MIN_PITCH == 0
MAX_PITCH == 88

\* params: a key that is absent is None
ParamSets ==
    { [pitch_shift_min_pitch |-> None, pitch_shift_max_pitch |-> None],
      [pitch_shift_min_pitch |-> Some(60), pitch_shift_max_pitch |-> Some(62)],
      [pitch_shift_min_pitch |-> Some(60), pitch_shift_max_pitch |-> Some(61)],
      [pitch_shift_min_pitch |-> Some(61), pitch_shift_max_pitch |-> Some(61)] }

min_pitch(params) ==
    IF params.pitch_shift_min_pitch = None THEN MIN_PITCH
    ELSE params.pitch_shift_min_pitch[1]

max_pitch(params) ==
    IF params.pitch_shift_max_pitch = None THEN MAX_PITCH
    ELSE params.pitch_shift_max_pitch[1]

\* A pitch assignment that leaves out the row label: df['pitch'] = p
SetPitchEveryRow(df, label, p) ==
    [i \in 1..Len(df) |-> [df[i] EXCEPT !.pitch = p]]

\* df.loc[label, 'pitch'] = p
SetPitch(df, label, p) ==
    [i \in 1..Len(df) |-> IF df[i].idx = label THEN [df[i] EXCEPT !.pitch = p] ELSE df[i]]

\* Lines 51-62: read the range, copy the excerpt, sample a note.
PitchShiftCall(params) ==
    /\ Idle
    /\ call' = [name |-> "pitch_shift", params |-> params]
    /\ LET c == CompositionCopy(Fresh(heap), CallerObj)
           n == Len(c.heap[c.ref])
       IN /\ heap' = c.heap
          /\ IF n = 0
             THEN \* rand.randint(0, 0) raises ValueError
                  /\ pc' = "raised"
                  /\ result' = Raised("ValueError")
                  /\ frame' = NoFrame
             ELSE \E note_index \in Randint(0, n) :
                  /\ pc' = "pitch_shift_loop"
                  /\ result' = NoResult
                  /\ frame' = [op |-> "pitch_shift",
                               degraded |-> c.ref,
                               note_index |-> note_index,
                               original_pitch |-> Loc(c.heap[c.ref], note_index).pitch,
                               min_pitch |-> min_pitch(params),
                               max_pitch |-> max_pitch(params)]
    /\ UNCHANGED <<ClassifierVars, gp, fs>>

\* The test of the while loop at line 63
PitchUnchanged == Loc(heap[frame.degraded], frame.note_index).pitch = frame.original_pitch

\* Line 64: one pass of the loop body
PitchShiftDraw ==
    /\ pc = "pitch_shift_loop"
    /\ PitchUnchanged
    /\ \/ /\ frame.min_pitch >= frame.max_pitch   \* rand.randint raises ValueError
          /\ pc' = "raised"
          /\ result' = Raised("ValueError")
          /\ UNCHANGED heap
       \/ \E p \in Randint(frame.min_pitch, frame.max_pitch) :
          /\ heap' = [heap EXCEPT ![frame.degraded] = SetPitch(@, frame.note_index, p)]
          /\ UNCHANGED <<pc, result>>
    /\ UNCHANGED <<call, frame, ClassifierVars, gp, fs>>

\* Line 66: the loop is left and the copy returned
PitchShiftReturn ==
    /\ pc = "pitch_shift_loop"
    /\ ~PitchUnchanged
    /\ pc' = "returned"
    /\ result' = Returned(frame.degraded)
    /\ UNCHANGED <<heap, call, frame, ClassifierVars, gp, fs>>

CallPitchShift == \E params \in ParamSets : PitchShiftCall(params)

(***************************************************************************)
(* remove_note(excerpt, rand, params)                                      *)
(***************************************************************************)
\* note_df.drop(label, inplace=True): the rows without the label, in place
DropLabel(df, label) == SelectRows(df, [i \in 1..Len(df) |-> df[i].idx # label])

\* The row remove_note drops: the label 0, whatever note was sampled
DroppedLabel(note_index) == 0

RemoveNote ==
    /\ Idle
    /\ call' = [name |-> "remove_note"]
    /\ LET c == CompositionCopy(Fresh(heap), CallerObj)
           n == Len(c.heap[c.ref])
       IN IF n = 0
          THEN \* rand.randint(0, 0) raises ValueError
               /\ heap' = c.heap
               /\ result' = Raised("ValueError")
               /\ frame' = NoFrame
          ELSE \E note_index \in Randint(0, n) :
               LET label == DroppedLabel(note_index)
               IN /\ frame' = [op |-> "remove_note", degraded |-> c.ref,
                               note_index |-> note_index]
                  /\ IF label \in Labels(c.heap[c.ref])
                     THEN \* drop(..., inplace=True) returns None, and
                          \* None.reset_index raises AttributeError
                          /\ heap' = [c.heap EXCEPT ![c.ref] = DropLabel(@, label)]
                          /\ result' = Raised("AttributeError")
                     ELSE /\ heap' = c.heap
                          /\ result' = Raised("KeyError")
    /\ pc' = "raised"
    /\ UNCHANGED <<ClassifierVars, gp, fs>>

(***************************************************************************)
(* time_shift, onset_shift, offset_shift, add_note: each is a def whose    *)
(* body is its docstring, so a call evaluates nothing and returns None.    *)
(***************************************************************************)
ReturnedNone == [kind |-> "returned_none", ref |-> CallerObj, exc |-> "none"]

DocstringOnly(name) ==
    /\ Idle
    /\ call' = [name |-> name]
    /\ heap' = Fresh(heap)
    /\ frame' = NoFrame
    /\ result' = ReturnedNone
    /\ pc' = "returned"
    /\ UNCHANGED <<ClassifierVars, gp, fs>>

TimeShift == DocstringOnly("time_shift")

OnsetShift == DocstringOnly("onset_shift")

OffsetShift == DocstringOnly("offset_shift")

AddNote == DocstringOnly("add_note")

(***************************************************************************)
(* The caller holds one excerpt and calls the operations on it, again and  *)
(* again: when a call has ended the caller lets go of what it returned and *)
(* is ready for the next call.                                             *)
(***************************************************************************)
CallerContinues ==
    /\ pc \in {"returned", "raised"}
    /\ pc' = "idle"
    /\ heap' = Fresh(heap)
    /\ call' = [name |-> "none"]
    /\ frame' = [op |-> "none"]
    /\ result' = [kind |-> "none", ref |-> CallerObj, exc |-> "none"]
    /\ UNCHANGED <<ClassifierVars, gp, fs>>

NoNote == [onset |-> 0, track |-> 0, pitch |-> 0, dur |-> 0]
NoDegs == <<>>
NoGp == [pc |-> "none"]
NoFs == [pc |-> "none"]

ClassifierIdle ==
    /\ gt_note = NoNote
    /\ trans_note = NoNote
    /\ gt_excerpt = <<>>
    /\ trans_excerpt = <<>>
    /\ deg_counts = NoDegs

Init ==
    /\ \E notes \in NoteSeqs :
          heap = [o \in ObjIds |-> IF o = CallerObj THEN DataFrame(notes) ELSE <<>>]
    /\ pc = "idle"
    /\ call = NoCall
    /\ frame = NoFrame
    /\ result = NoResult
    /\ ClassifierIdle
    /\ gp = NoGp
    /\ fs = NoFs

Next ==
    \/ CallGetDfExcerpt
    \/ CallPitchShift
    \/ PitchShiftDraw
    \/ PitchShiftReturn
    \/ RemoveNote
    \/ TimeShift
    \/ OnsetShift
    \/ OffsetShift
    \/ AddNote
    \/ CallerContinues

Spec == Init /\ [][Next]_vars

(***************************************************************************)
(* Properties of the windowing and of the degradation operators (Spec).    *)
(***************************************************************************)
CallerDf == heap[CallerObj]
ResultDf == heap[result.ref]

ReturnedFrom(name) == pc = "returned" /\ call.name = name
EndedCall(name) == pc \in {"returned", "raised"} /\ call.name = name

\* C1: a pitch_shift call on an excerpt with at least one note and a pitch range
\* holding at least two values does not raise, and what it returns has the length
\* of the excerpt and differs from it in exactly one row, in that row's pitch
\* only; the new pitch lies in [min_pitch, max_pitch) and is not the original.
C1_PitchShiftOneNote ==
    (/\ EndedCall("pitch_shift")
     /\ Len(CallerDf) >= 1
     /\ max_pitch(call.params) - min_pitch(call.params) >= 2)
    => /\ pc = "returned"
       /\ Len(ResultDf) = Len(CallerDf)
       /\ \E i \in 1..Len(CallerDf) :
            /\ ResultDf[i].pitch # CallerDf[i].pitch
            /\ ResultDf[i].pitch >= min_pitch(call.params)
            /\ ResultDf[i].pitch < max_pitch(call.params)
            /\ ResultDf[i] = [CallerDf[i] EXCEPT !.pitch = ResultDf[i].pitch]
            /\ \A j \in 1..Len(CallerDf) : j # i => ResultDf[j] = CallerDf[j]

\* C1 witness: pitch_shift has returned for a two-note excerpt under the default
\* range, with the second note shifted.
C1_Witness ==
    /\ ReturnedFrom("pitch_shift")
    /\ Len(CallerDf) = 2
    /\ call.params.pitch_shift_min_pitch = None
    /\ frame.note_index = 1
    /\ ResultDf[2].pitch # CallerDf[2].pitch

\* C2: a remove_note call on an excerpt with at least one note returns the
\* excerpt's notes without the one at the sampled index.
C2_RemovesSampledNote ==
    (EndedCall("remove_note") /\ Len(CallerDf) >= 1)
    => /\ pc = "returned"
       /\ Len(ResultDf) = Len(CallerDf) - 1
       /\ \A i \in 1..Len(ResultDf) :
            NoteOf(ResultDf[i]) =
                NoteOf(CallerDf[IF i <= frame.note_index THEN i ELSE i + 1])

\* C3: no step of a get_df_excerpt, pitch_shift or remove_note call changes the
\* data frame the caller holds, and a call that returns hands back an object
\* other than the caller's.
C3_CallerUnchanged ==
    [][/\ heap'[CallerObj] = heap[CallerObj]
       /\ (result'.kind = "returned" => result'.ref # CallerObj)]_vars

\* C3 witness: a get_df_excerpt call has returned after clipping a note in its
\* own copy.
C3_Witness ==
    /\ ReturnedFrom("get_df_excerpt")
    /\ Len(ResultDf) >= 1
    /\ heap[CopyObj] # CallerDf

\* C4: every note get_df_excerpt returns has start_time <= onset, and
\* onset < end_time when there is an end time.
C4_WindowOnsets ==
    ReturnedFrom("get_df_excerpt")
    => \A i \in 1..Len(ResultDf) :
          /\ ResultDf[i].onset >= call.start_time
          /\ (call.end_time # None => ResultDf[i].onset < call.end_time[1])

\* C4 witness: a window [a, b) with a < b returned two notes, one of them moved
\* to the start of the window.
C4_Witness ==
    /\ ReturnedFrom("get_df_excerpt")
    /\ call.end_time # None
    /\ call.start_time < call.end_time[1]
    /\ Len(ResultDf) = 2
    /\ \E i \in 1..2 : ResultDf[i].onset # CallerDf[i].onset

Offset(row) == row.onset + row.dur

Overlaps(row, a, b) == row.onset < b /\ Offset(row) > a

\* The part of a row inside [a, b)
Clipped(row, a, b) ==
    [row EXCEPT !.onset = Max(row.onset, a),
                !.dur = Min(Offset(row), b) - Max(row.onset, a)]

FiniteWindow == call.end_time # None /\ call.start_time < call.end_time[1]

\* C5: for notes with dur > 0 and a window [start, end), get_df_excerpt keeps a
\* note exactly when onset < end and onset + dur > start, and a kept note has its
\* pitch and track, onset = max(onset, start) and offset = min(onset + dur, end),
\* so dur > 0.
C5_KeptAndClipped ==
    (ReturnedFrom("get_df_excerpt") /\ FiniteWindow)
    => LET a == call.start_time
           b == call.end_time[1]
       IN /\ Len(ResultDf) = Cardinality(Labels(ResultDf))
          /\ \A i \in 1..Len(CallerDf) :
               /\ CallerDf[i].dur > 0
               /\ (CallerDf[i].idx \in Labels(ResultDf)) <=> Overlaps(CallerDf[i], a, b)
               /\ Overlaps(CallerDf[i], a, b) =>
                    /\ Loc(ResultDf, CallerDf[i].idx) = Clipped(CallerDf[i], a, b)
                    /\ Loc(ResultDf, CallerDf[i].idx).dur > 0

\* C5 witness: a note spanning the whole window came out clipped at both ends,
\* and another note was dropped.
C5_Witness ==
    /\ ReturnedFrom("get_df_excerpt")
    /\ FiniteWindow
    /\ Len(CallerDf) = 2
    /\ Len(ResultDf) = 1
    /\ \E i \in 1..2 :
         /\ CallerDf[i].onset < call.start_time
         /\ Offset(CallerDf[i]) > call.end_time[1]
         /\ ResultDf[1].idx = CallerDf[i].idx
         /\ ResultDf[1].onset = call.start_time
         /\ Offset(ResultDf[1]) = call.end_time[1]

\* C6: for a < b < c and each note of S, its pieces in get_df_excerpt(S, a, b) and
\* get_df_excerpt(S, b, c) cover the time of its piece in get_df_excerpt(S, a, c):
\* it is in the [a, c) window exactly when it is in one of the sub-windows, a
\* piece in one sub-window only is the whole piece, and two pieces meet at b and
\* their durations add up.
C6_SplitWindow ==
    (ReturnedFrom("get_df_excerpt") /\ FiniteWindow)
    => LET a == call.start_time
           c == call.end_time[1]
       IN \A b \in (a + 1)..(c - 1) :
            LET left == get_df_excerpt(CallerDf, a, Some(b))
                right == get_df_excerpt(CallerDf, b, Some(c))
            IN \A l \in Labels(CallerDf) :
                 /\ (l \in Labels(ResultDf)) <=> (l \in Labels(left) \/ l \in Labels(right))
                 /\ (l \in Labels(left) /\ l \notin Labels(right))
                      => Loc(ResultDf, l) = Loc(left, l)
                 /\ (l \notin Labels(left) /\ l \in Labels(right))
                      => Loc(ResultDf, l) = Loc(right, l)
                 /\ (l \in Labels(left) /\ l \in Labels(right))
                      => /\ Offset(Loc(left, l)) = b
                         /\ Loc(right, l).onset = b
                         /\ Loc(ResultDf, l).onset = Loc(left, l).onset
                         /\ Loc(ResultDf, l).dur = Loc(left, l).dur + Loc(right, l).dur
                         /\ Loc(ResultDf, l).pitch = Loc(left, l).pitch
                         /\ Loc(ResultDf, l).pitch = Loc(right, l).pitch

\* C6 witness: the window [0, 3) returned a note that a split at 1 or 2 cuts in
\* two and another note that lies in one half only.
C6_Witness ==
    /\ ReturnedFrom("get_df_excerpt")
    /\ FiniteWindow
    /\ call.end_time[1] - call.start_time >= 3
    /\ Len(ResultDf) = 2
    /\ \E b \in (call.start_time + 1)..(call.end_time[1] - 1) :
         /\ ResultDf[1].onset < b /\ Offset(ResultDf[1]) > b
         /\ Offset(ResultDf[2]) <= b

(***************************************************************************)
(* The degradation vector and the classifiers.                             *)
(***************************************************************************)
\* The canonical order of the degradation kinds (the keys of get_degradations)
DEGRADATIONS ==
    <<"pitch_shift", "time_shift", "onset_shift", "offset_shift", "remove_note", "add_note">>

\* The minimum shift, in ms, that counts as a timing degradation
MIN_SHIFT_DEFAULT == 40

\* list(DEGRADATIONS).index(name)
Index(name) == CHOOSE i \in 1..Len(DEGRADATIONS) : DEGRADATIONS[i] = name

\* np.zeros(len(DEGRADATIONS))
Zeros == [i \in 1..Len(DEGRADATIONS) |-> 0]

\* deg_counts[list(DEGRADATIONS).index(name)] = x
SetDeg(v, name, x) == [v EXCEPT ![Index(name)] = x]

\* A classifier whose threshold tests take a difference equal to the threshold
\* for no shift
get_note_degs_strict(gt, trans) ==
    LET pitched == IF gt.pitch # trans.pitch
                   THEN SetDeg(Zeros, "pitch_shift", 1) ELSE Zeros
    IN IF Abs(gt.dur - trans.dur) <= MIN_SHIFT_DEFAULT
       THEN IF Abs(gt.onset - trans.onset) <= MIN_SHIFT_DEFAULT
            THEN pitched
            ELSE SetDeg(pitched, "time_shift", 1)
       ELSE LET onsets == IF Abs(gt.onset - trans.onset) > MIN_SHIFT_DEFAULT
                          THEN SetDeg(pitched, "onset_shift", 1) ELSE pitched
                gt_offset == gt.onset + gt.dur
                trans_offset == trans.onset + trans.dur
            IN IF Abs(gt_offset - trans_offset) > MIN_SHIFT_DEFAULT
               THEN SetDeg(onsets, "offset_shift", 1) ELSE onsets

\* A classifier that marks time_shift for an onset difference whatever the
\* duration difference, and goes on to the onset and offset tests
get_note_degs_no_return(gt, trans) ==
    LET pitched == IF gt.pitch # trans.pitch
                   THEN SetDeg(Zeros, "pitch_shift", 1) ELSE Zeros
        timed == IF Abs(gt.onset - trans.onset) >= MIN_SHIFT_DEFAULT
                 THEN SetDeg(pitched, "time_shift", 1) ELSE pitched
    IN IF Abs(gt.dur - trans.dur) < MIN_SHIFT_DEFAULT
       THEN timed
       ELSE LET onsets == IF Abs(gt.onset - trans.onset) >= MIN_SHIFT_DEFAULT
                          THEN SetDeg(timed, "onset_shift", 1) ELSE timed
                gt_offset == gt.onset + gt.dur
                trans_offset == trans.onset + trans.dur
            IN IF Abs(gt_offset - trans_offset) >= MIN_SHIFT_DEFAULT
               THEN SetDeg(onsets, "offset_shift", 1) ELSE onsets

\* A classifier without the offset test of lines 186-189
get_note_degs_no_offset(gt, trans) ==
    LET pitched == IF gt.pitch # trans.pitch
                   THEN SetDeg(Zeros, "pitch_shift", 1) ELSE Zeros
    IN IF Abs(gt.dur - trans.dur) < MIN_SHIFT_DEFAULT
       THEN IF Abs(gt.onset - trans.onset) < MIN_SHIFT_DEFAULT
            THEN pitched
            ELSE SetDeg(pitched, "time_shift", 1)
       ELSE IF Abs(gt.onset - trans.onset) >= MIN_SHIFT_DEFAULT
            THEN SetDeg(pitched, "onset_shift", 1) ELSE pitched

get_note_degs(gt, trans) ==
    LET pitched == IF gt.pitch # trans.pitch
                   THEN SetDeg(Zeros, "pitch_shift", 1) ELSE Zeros
    IN IF Abs(gt.dur - trans.dur) < MIN_SHIFT_DEFAULT
       THEN IF Abs(gt.onset - trans.onset) < MIN_SHIFT_DEFAULT
            THEN pitched
            ELSE SetDeg(pitched, "time_shift", 1)
       ELSE LET onsets == IF Abs(gt.onset - trans.onset) >= MIN_SHIFT_DEFAULT
                          THEN SetDeg(pitched, "onset_shift", 1) ELSE pitched
                gt_offset == gt.onset + gt.dur
                trans_offset == trans.onset + trans.dur
            IN IF Abs(gt_offset - trans_offset) >= MIN_SHIFT_DEFAULT
               THEN SetDeg(onsets, "offset_shift", 1) ELSE onsets

\* A classifier that counts the ground truth's notes in both cases
get_excerpt_degs_gt_len(gt, trans) ==
    IF Len(gt) = 0 THEN SetDeg(Zeros, "add_note", Len(gt))
    ELSE IF Len(trans) = 0 THEN SetDeg(Zeros, "remove_note", Len(gt))
    ELSE Zeros

get_excerpt_degs(gt, trans) ==
    IF Len(gt) = 0 THEN SetDeg(Zeros, "add_note", Len(trans))
    ELSE IF Len(trans) = 0 THEN SetDeg(Zeros, "remove_note", Len(gt))
    ELSE Zeros

\* The notes handed to get_note_degs: onsets and durations on both sides of the
\* threshold
ClassifierNotes ==
    [onset : {0, 30, 39, 40, 100}, track : Tracks, pitch : Pitches,
     dur : {60, 100, 139, 140}]

\* The excerpts handed to get_excerpt_degs
ClassifierExcerpts ==
    {DataFrame(notes) : notes \in {q \in NoteSeqs :
        \A i \in 1..Len(q) : q[i].pitch = 60 /\ q[i].dur = 1}}

WindowVars == <<heap, pc, frame, result>>

CallGetNoteDegs ==
    \E g \in ClassifierNotes, t \in ClassifierNotes :
        /\ call = NoCall
        /\ call' = [name |-> "get_note_degs"]
        /\ gt_note' = g
        /\ trans_note' = t
        /\ deg_counts' = get_note_degs(g, t)
        /\ gt_excerpt' = <<>>
        /\ trans_excerpt' = <<>>
        /\ UNCHANGED <<WindowVars, gp, fs>>

CallGetExcerptDegs ==
    \E g \in ClassifierExcerpts, t \in ClassifierExcerpts :
        /\ call = NoCall
        /\ call' = [name |-> "get_excerpt_degs"]
        /\ gt_excerpt' = g
        /\ trans_excerpt' = t
        /\ deg_counts' = get_excerpt_degs(g, t)
        /\ gt_note' = NoNote
        /\ trans_note' = NoNote
        /\ UNCHANGED <<WindowVars, gp, fs>>

InitClassify ==
    /\ heap = [o \in ObjIds |-> <<>>]
    /\ pc = "idle"
    /\ call = NoCall
    /\ frame = NoFrame
    /\ result = NoResult
    /\ ClassifierIdle
    /\ gp = NoGp
    /\ fs = NoFs

NextClassify == CallGetNoteDegs \/ CallGetExcerptDegs

SpecClassify == InitClassify /\ [][NextClassify]_vars

(***************************************************************************)
(* Properties of the classifiers (SpecClassify).                           *)
(***************************************************************************)
Deg(name) == deg_counts[Index(name)]
Flag(b) == IF b THEN 1 ELSE 0
NonZero(v) == {i \in 1..Len(v) : v[i] # 0}

\* C7: get_note_degs returns the vector of the decision procedure with threshold
\* 40: pitch_shift is 1 exactly when the pitches differ; with |dur difference| <
\* 40, time_shift is 1 exactly when |onset difference| >= 40 and onset_shift and
\* offset_shift are 0; with |dur difference| >= 40, time_shift is 0, onset_shift
\* is 1 exactly when |onset difference| >= 40 and offset_shift is 1 exactly when
\* |offset difference| >= 40; remove_note and add_note are 0.
C7_NoteDecisionProcedure ==
    call.name = "get_note_degs"
    => LET onsetDelta == Abs(gt_note.onset - trans_note.onset)
           durDelta == Abs(gt_note.dur - trans_note.dur)
           offsetDelta == Abs((gt_note.onset + gt_note.dur)
                              - (trans_note.onset + trans_note.dur))
       IN /\ Len(deg_counts) = 6
          /\ Deg("pitch_shift") = Flag(gt_note.pitch # trans_note.pitch)
          /\ durDelta < 40 =>
               /\ Deg("time_shift") = Flag(onsetDelta >= 40)
               /\ Deg("onset_shift") = 0
               /\ Deg("offset_shift") = 0
          /\ durDelta >= 40 =>
               /\ Deg("time_shift") = 0
               /\ Deg("onset_shift") = Flag(onsetDelta >= 40)
               /\ Deg("offset_shift") = Flag(offsetDelta >= 40)
          /\ Deg("remove_note") = 0
          /\ Deg("add_note") = 0

\* C7 witness: onsets and durations differ by exactly 40 and the pitches differ:
\* pitch_shift, onset_shift and offset_shift are marked.
C7_Witness ==
    /\ call.name = "get_note_degs"
    /\ trans_note.onset - gt_note.onset = 40
    /\ trans_note.dur - gt_note.dur = 40
    /\ gt_note.pitch # trans_note.pitch
    /\ deg_counts = <<1, 0, 1, 1, 0, 0>>

\* C8 as claimed: the vector get_note_degs returns has at most one nonzero
\* entry, and that entry is 1.
C8_AtMostOneNonzero ==
    call.name = "get_note_degs"
    => /\ Cardinality(NonZero(deg_counts)) <= 1
       /\ \A i \in NonZero(deg_counts) : deg_counts[i] = 1

\* C8 amended: every entry of the vector get_note_degs returns is 0 or 1,
\* time_shift is never marked together with onset_shift or offset_shift, and
\* remove_note and add_note are 0, so at most three entries (pitch_shift,
\* onset_shift, offset_shift) are nonzero.
C8_EntriesAndExclusion ==
    call.name = "get_note_degs"
    => /\ \A i \in 1..Len(deg_counts) : deg_counts[i] \in {0, 1}
       /\ ~(Deg("time_shift") = 1 /\ (Deg("onset_shift") = 1 \/ Deg("offset_shift") = 1))
       /\ Deg("remove_note") = 0
       /\ Deg("add_note") = 0
       /\ Cardinality(NonZero(deg_counts)) <= 3

\* C8 witness: a pitch difference with a time shift marks two entries.
C8_Witness ==
    /\ call.name = "get_note_degs"
    /\ Abs(gt_note.dur - trans_note.dur) < 40
    /\ deg_counts = <<1, 1, 0, 0, 0, 0>>

\* C9: get_excerpt_degs on an empty ground truth and any transcription T returns
\* add_note = |T| and 0 elsewhere; on a non-empty ground truth G and an empty
\* transcription it returns remove_note = |G| and 0 elsewhere.
C9_DegenerateExcerpts ==
    call.name = "get_excerpt_degs"
    => /\ Len(gt_excerpt) = 0
            => deg_counts = [i \in 1..6 |-> IF i = 6 THEN Len(trans_excerpt) ELSE 0]
       /\ (Len(gt_excerpt) > 0 /\ Len(trans_excerpt) = 0)
            => deg_counts = [i \in 1..6 |-> IF i = 5 THEN Len(gt_excerpt) ELSE 0]

\* C9 witness: an empty ground truth against a transcription of two notes.
C9_Witness ==
    /\ call.name = "get_excerpt_degs"
    /\ Len(gt_excerpt) = 0
    /\ Len(trans_excerpt) = 2
    /\ Deg("add_note") = 2

(***************************************************************************)
(* get_proportions(gt, trans, trans_start, trans_end, length, min_notes)   *)
(***************************************************************************)
\* The sort order of a note data frame: onset, track, pitch, dur
NoteLess(a, b) ==
    \/ a.onset < b.onset
    \/ a.onset = b.onset /\ a.track < b.track
    \/ a.onset = b.onset /\ a.track = b.track /\ a.pitch < b.pitch
    \/ a.onset = b.onset /\ a.track = b.track /\ a.pitch = b.pitch /\ a.dur < b.dur

IsSorted(notes) ==
    \A i \in 1..(Len(notes) - 1) : ~NoteLess(notes[i + 1], notes[i])

\* The files load_file reads: non-empty (a MIDI file without notes loads as None)
\* and in the order midi_to_df gives them.
LoadedFiles ==
    {DataFrame(notes) : notes \in {q \in NoteSeqs :
        /\ Len(q) >= 1
        /\ IsSorted(q)
        /\ \A i \in 1..Len(q) : q[i].pitch = 60 /\ q[i].dur <= 2 /\ q[i].onset % 2 = 0}}

LengthChoices == {1, 2}
MinNotesChoices == 0..(MaxLen + 1)
TransBounds ==
    { [trans_start |-> 0, trans_end |-> None],
      [trans_start |-> 1, trans_end |-> None],
      [trans_start |-> 0, trans_end |-> Some(2)] }

\* The maximum of an empty pandas Series is NaN
NaN == <<>>

\* (df.onset + df.dur).max()
MaxOffset(df) ==
    IF Len(df) = 0 THEN NaN
    ELSE Some(CHOOSE m \in {Offset(df[i]) : i \in 1..Len(df)} :
                \A i \in 1..Len(df) : Offset(df[i]) <= m)

\* Python's max(a, b): b when b > a, else a; no comparison with NaN is true
PyMax(a, b) ==
    IF a = NaN \/ b = NaN THEN a
    ELSE IF b[1] > a[1] THEN b ELSE a

\* gt_df.onset -= trans_start
ShiftBack(df, trans_start) ==
    [i \in 1..Len(df) |-> [df[i] EXCEPT !.onset = @ - trans_start]]

\* Lines 277-279: the ground truth within the transcription's bounds
EnforceBounds(df, trans_start, trans_end) ==
    LET cut == get_df_excerpt(df, trans_start, trans_end)
    IN IF trans_start # 0 THEN ShiftBack(cut, trans_start) ELSE cut

\* A fraction num / den, den > 0
Frac(num, den) == [num |-> num, den |-> den]

\* Lines 307-310
Proportions(counts, num_excerpts, clean_count) ==
    IF num_excerpts - clean_count = 0
    THEN [i \in 1..Len(counts) |-> Frac(counts[i], 1)]
    ELSE [i \in 1..Len(counts) |-> Frac(counts[i], num_excerpts - clean_count)]

\* Line 311
CleanFraction(num_excerpts, clean_count) ==
    IF num_excerpts > 0 THEN Frac(clean_count, num_excerpts) ELSE Frac(0, 1)

\* Line 285
ExcerptEnd(excerpt_start, length, end_time) == Min(excerpt_start + length, end_time)

\* Line 290 with "or" in place of "and"
TooFewNotesEither(gt, trans, min_notes) == Len(gt) < min_notes \/ Len(trans) < min_notes

\* Line 290
TooFewNotes(gt, trans, min_notes) == Len(gt) < min_notes /\ Len(trans) < min_notes

\* Lines 269-282: load, enforce the bounds, find the end time
GPEnter ==
    /\ gp.pc = "start"
    /\ LET gt_df == EnforceBounds(gp.gt_loaded, gp.trans_start, gp.trans_end)
           end_time == PyMax(MaxOffset(gt_df), MaxOffset(gp.trans_df))
       IN gp' = IF end_time = NaN
                THEN \* range(0, nan, length) raises TypeError
                     [gp EXCEPT !.gt_df = gt_df, !.end_time = end_time,
                                !.pc = "raised", !.exc = "TypeError"]
                ELSE IF gp.length = 0
                THEN \* range() arg 3 must not be zero
                     [gp EXCEPT !.gt_df = gt_df, !.end_time = end_time,
                                !.pc = "raised", !.exc = "ValueError"]
                ELSE [gp EXCEPT !.gt_df = gt_df, !.end_time = end_time,
                                !.pc = "loop", !.excerpt_start = 0]
    /\ deg_counts' = Zeros
    /\ UNCHANGED <<WindowVars, call, gt_note, trans_note, gt_excerpt, trans_excerpt, fs>>

\* Lines 284-298: a window with too few notes on both sides is skipped
GPSkipWindow ==
    /\ gp.pc = "loop"
    /\ gp.excerpt_start < gp.end_time[1]
    /\ LET excerpt_end == ExcerptEnd(gp.excerpt_start, gp.length, gp.end_time[1])
           gt == get_df_excerpt(gp.gt_df, gp.excerpt_start, Some(excerpt_end))
           trans == get_df_excerpt(gp.trans_df, gp.excerpt_start, Some(excerpt_end))
       IN /\ TooFewNotes(gt, trans, gp.min_notes)
          /\ gt_excerpt' = gt
          /\ trans_excerpt' = trans
          /\ gp' = [gp EXCEPT !.excerpt_start = @ + gp.length,
                              !.visited = Append(@, <<gp.excerpt_start, excerpt_end>>),
                              !.skipped = @ + 1]
    /\ UNCHANGED <<WindowVars, call, gt_note, trans_note, deg_counts, fs>>

\* Lines 284-302: any other window is counted and classified; then
\* deg_counts += degs names a variable that does not exist, and NameError
\* leaves the function before the counts or the clean count change.
GPEvaluateWindow ==
    /\ gp.pc = "loop"
    /\ gp.excerpt_start < gp.end_time[1]
    /\ LET excerpt_end == ExcerptEnd(gp.excerpt_start, gp.length, gp.end_time[1])
           gt == get_df_excerpt(gp.gt_df, gp.excerpt_start, Some(excerpt_end))
           trans == get_df_excerpt(gp.trans_df, gp.excerpt_start, Some(excerpt_end))
       IN /\ ~TooFewNotes(gt, trans, gp.min_notes)
          /\ gt_excerpt' = gt
          /\ trans_excerpt' = trans
          /\ gp' = [gp EXCEPT !.num_excerpts = @ + 1,
                              !.visited = Append(@, <<gp.excerpt_start, excerpt_end>>),
                              !.excerpt_degs = get_excerpt_degs(gt, trans),
                              !.pc = "raised", !.exc = "NameError"]
    /\ UNCHANGED <<WindowVars, call, gt_note, trans_note, deg_counts, fs>>

\* Lines 306-312: the range is used up
GPFinish ==
    /\ gp.pc = "loop"
    /\ gp.excerpt_start >= gp.end_time[1]
    /\ gp' = [gp EXCEPT !.pc = "returned",
                        !.proportions = Proportions(deg_counts, gp.num_excerpts, gp.clean_count),
                        !.clean = CleanFraction(gp.num_excerpts, gp.clean_count)]
    /\ UNCHANGED <<WindowVars, call, ClassifierVars, fs>>

InitProportions ==
    /\ heap = [o \in ObjIds |-> <<>>]
    /\ pc = "idle"
    /\ call = [name |-> "get_proportions"]
    /\ frame = NoFrame
    /\ result = NoResult
    /\ ClassifierIdle
    /\ \E gt \in LoadedFiles, trans \in LoadedFiles, b \in TransBounds,
          length \in LengthChoices, min_notes \in MinNotesChoices :
          gp = [pc |-> "start", exc |-> "none",
                gt_loaded |-> gt, trans_df |-> trans,
                trans_start |-> b.trans_start, trans_end |-> b.trans_end,
                length |-> length, min_notes |-> min_notes,
                gt_df |-> <<>>, end_time |-> NaN, excerpt_start |-> 0,
                num_excerpts |-> 0, clean_count |-> 0, skipped |-> 0,
                visited |-> <<>>,
                excerpt_degs |-> <<>>, proportions |-> <<>>, clean |-> Frac(0, 1)]
    /\ fs = NoFs

NextProportions == GPEnter \/ GPSkipWindow \/ GPEvaluateWindow \/ GPFinish

SpecProportions == InitProportions /\ [][NextProportions]_vars

(***************************************************************************)
(* Properties of get_proportions (SpecProportions).                        *)
(***************************************************************************)
GpEnded == gp.pc \in {"returned", "raised"}

\* The windows range(0, end_time, length) visits
WindowStarts == {s \in 0..(gp.end_time[1] - 1) : s % gp.length = 0}

WindowGt(s) ==
    get_df_excerpt(gp.gt_df, s, Some(ExcerptEnd(s, gp.length, gp.end_time[1])))

WindowTrans(s) ==
    get_df_excerpt(gp.trans_df, s, Some(ExcerptEnd(s, gp.length, gp.end_time[1])))

WindowDegs(s) == get_excerpt_degs(WindowGt(s), WindowTrans(s))

EvaluatedWindows ==
    {s \in WindowStarts : ~TooFewNotes(WindowGt(s), WindowTrans(s), gp.min_notes)}

CleanWindows == {s \in EvaluatedWindows : NonZero(WindowDegs(s)) = {}}

\* The sum over the windows ws of entry i of their degradation vectors
RECURSIVE SumDegs(_, _)
SumDegs(ws, i) ==
    IF ws = {} THEN 0
    ELSE LET s == CHOOSE x \in ws : TRUE
         IN WindowDegs(s)[i] + SumDegs(ws \ {s}, i)

\* C10: a get_proportions call that has a first window to evaluate goes through
\* all its windows and returns proportions = the entry-wise sum of the evaluated
\* windows' vectors / (evaluated - clean windows), or all zeros when that is 0,
\* and clean = clean windows / evaluated windows.
C10_FinalProportions ==
    (GpEnded /\ gp.end_time # NaN /\ EvaluatedWindows # {})
    => LET evaluated == Cardinality(EvaluatedWindows)
           clean == Cardinality(CleanWindows)
       IN /\ gp.pc = "returned"
          /\ \A i \in 1..6 :
               IF evaluated - clean = 0
               THEN gp.proportions[i].num = 0
               ELSE gp.proportions[i].num * (evaluated - clean)
                        = SumDegs(EvaluatedWindows, i) * gp.proportions[i].den
          /\ gp.clean.num * evaluated = clean * gp.clean.den

\* One pass of the loop body of lines 284-304: a step taken inside the loop
\* while a window is left
WindowStep == gp.pc = "loop" /\ gp.excerpt_start < gp.end_time[1] /\ gp' # gp

\* C11: a window is skipped exactly when the ground-truth excerpt and the
\* transcription excerpt both hold fewer than min_notes notes. A skipped
\* window changes neither the accumulated counts, nor the number of evaluated
\* windows, nor the clean count, and is not classified; every other window is
\* classified and raises the number of evaluated windows by exactly one.
C11_SkipOrEvaluate ==
    [][WindowStep =>
        LET gt == WindowGt(gp.excerpt_start)
            trans == WindowTrans(gp.excerpt_start)
            few == Len(gt) < gp.min_notes /\ Len(trans) < gp.min_notes
            skips == gp'.skipped = gp.skipped + 1
        IN /\ gt_excerpt' = gt
           /\ trans_excerpt' = trans
           /\ skips <=> few
           /\ few => /\ deg_counts' = deg_counts
                     /\ gp'.num_excerpts = gp.num_excerpts
                     /\ gp'.clean_count = gp.clean_count
                     /\ gp'.excerpt_degs = gp.excerpt_degs
           /\ ~few => /\ gp'.num_excerpts = gp.num_excerpts + 1
                      /\ gp'.skipped = gp.skipped
                      /\ gp'.excerpt_degs = get_excerpt_degs(gt, trans)]_vars

\* C11 witness: a window with one note on one side only and min_notes = 1 was
\* evaluated after an earlier window had been skipped.
C11_Witness ==
    /\ gp.skipped >= 1
    /\ gp.num_excerpts = 1
    /\ gp.min_notes = 1
    /\ Len(gt_excerpt) + Len(trans_excerpt) = 1
    /\ Len(gp.excerpt_degs) = 6

\* The latest note offset over the ground truth within the bounds and the
\* transcription (spec 4.5: "from time 0 to the latest offset across both
\* sequences"); the transcription of a loaded file is never empty.
LatestOffset ==
    LET offsets == {Offset(gp.gt_df[i]) : i \in 1..Len(gp.gt_df)}
                       \cup {Offset(gp.trans_df[i]) : i \in 1..Len(gp.trans_df)}
    IN CHOOSE m \in offsets : \A o \in offsets : o <= m

\* The windows [k * length, min((k + 1) * length, LatestOffset))
AllWindows ==
    LET n == (LatestOffset + gp.length - 1) \div gp.length
    IN [k \in 1..n |-> <<(k - 1) * gp.length, Min(k * gp.length, LatestOffset)>>]

\* Both excerpts of every window hold fewer than min_notes notes
EveryWindowTooSmall ==
    \A k \in 1..Len(AllWindows) :
        LET w == AllWindows[k]
        IN /\ Len(get_df_excerpt(gp.gt_df, w[1], Some(w[2]))) < gp.min_notes
           /\ Len(get_df_excerpt(gp.trans_df, w[1], Some(w[2]))) < gp.min_notes

\* C12: when min_notes is larger than the note count of both excerpts in every
\* window, get_proportions returns proportions = six zeros and clean = 0.
C12_AllSkippedReturnsZeros ==
    (GpEnded /\ gp.length > 0 /\ EveryWindowTooSmall)
    => /\ gp.pc = "returned"
       /\ Len(gp.proportions) = 6
       /\ \A i \in 1..6 : gp.proportions[i].num = 0
       /\ gp.clean.num = 0

\* What the code does give (C12): the same, when a note of the ground truth
\* lies within the transcription's bounds.
AllSkippedWithGroundTruth ==
    (GpEnded /\ gp.length > 0 /\ EveryWindowTooSmall /\ Len(gp.gt_df) > 0)
    => /\ gp.pc = "returned"
       /\ Len(gp.proportions) = 6
       /\ \A i \in 1..6 : gp.proportions[i].num = 0
       /\ gp.clean.num = 0

(***************************************************************************)
(* Sort order of get_df_excerpt's result (Spec).                           *)
(***************************************************************************)
NoteSeqOf(df) == [i \in 1..Len(df) |-> NoteOf(df[i])]

\* The sorted sequence q with the note n put in its place
InsertNote(q, n) ==
    LET k == Cardinality({i \in 1..Len(q) : ~NoteLess(n, q[i])})
    IN SubSeq(q, 1, k) \o <<n>> \o SubSeq(q, k + 1, Len(q))

\* The notes in the order (onset, track, pitch, dur)
SortedForm(notes) ==
    LET F[i \in 0..Len(notes)] ==
            IF i = 0 THEN <<>> ELSE InsertNote(F[i - 1], notes[i])
    IN F[Len(notes)]

\* C13: for every note sequence S, in any order, get_df_excerpt(S, 0, None)
\* returns the notes of S sorted by (onset, track, pitch, dur).
C13_WholeWindowSorted ==
    (ReturnedFrom("get_df_excerpt") /\ call.start_time = 0 /\ call.end_time = None)
    => NoteSeqOf(ResultDf) = SortedForm(NoteSeqOf(CallerDf))

\* What the code does give (C13): the rows of S, as they are and in S's order.
WholeWindowSameRows ==
    (ReturnedFrom("get_df_excerpt") /\ call.start_time = 0 /\ call.end_time = None)
    => ResultDf = CallerDf

\* C14: for every note sequence S sorted by (onset, track, pitch, dur) and every
\* window, the result of get_df_excerpt is again sorted by (onset, track, pitch,
\* dur), also when notes that began before start had their onset moved to start.
C14_ExcerptStaysSorted ==
    (ReturnedFrom("get_df_excerpt") /\ IsSorted(NoteSeqOf(CallerDf)))
    => IsSorted(NoteSeqOf(ResultDf))

(***************************************************************************)
(* pitch_shift with a range that leaves no other pitch (Spec).             *)
(***************************************************************************)
NarrowRange ==
    /\ call.name = "pitch_shift"
    /\ max_pitch(call.params) - min_pitch(call.params) <= 1

\* The loop of lines 63-64 cannot be left: the sampled note still has its
\* original pitch, and that pitch is the only one a draw can give.
CaughtInLoop ==
    /\ pc = "pitch_shift_loop"
    /\ PitchUnchanged
    /\ Randint(frame.min_pitch, frame.max_pitch) = {frame.original_pitch}

\* C15: a pitch_shift call with max_pitch - min_pitch <= 1 raises a
\* configuration error, for every excerpt and sampled note: it neither returns
\* a result nor stays in the resampling loop forever.
C15_NarrowRangeRaises ==
    NarrowRange => (pc # "returned" /\ ~CaughtInLoop)

(***************************************************************************)
(* time_shift, onset_shift, offset_shift and add_note (Spec).              *)
(***************************************************************************)
\* The rows of the result that differ from the caller's row at their place
ChangedRows(old, new) == {i \in 1..Len(old) : NoteOf(new[i]) # NoteOf(old[i])}

\* new is old with exactly one row changed, and that row passes the test
OneRowEdited(old, new, Test(_, _)) ==
    /\ Len(new) = Len(old)
    /\ Cardinality(ChangedRows(old, new)) = 1
    /\ \A i \in ChangedRows(old, new) :
          /\ new[i].track = old[i].track
          /\ new[i].pitch = old[i].pitch
          /\ Test(old[i], new[i])

MovedInTime(a, b) == b.onset # a.onset /\ b.dur = a.dur
OnsetMoved(a, b) == b.onset # a.onset /\ Offset(b) = Offset(a)
OffsetMoved(a, b) == b.onset = a.onset /\ b.dur # a.dur

\* new is old with one more note
OneNoteAdded(old, new) ==
    /\ Len(new) = Len(old) + 1
    /\ \E j \in 1..Len(new) :
          NoteSeqOf(SelectRows(new, [i \in 1..Len(new) |-> i # j])) = NoteSeqOf(old)

\* C16: time_shift, onset_shift, offset_shift and add_note each return a copy
\* of the excerpt with exactly one edit of their kind: one note moved in time
\* with its duration kept, one note's onset moved with its offset kept, one
\* note's offset moved with its onset kept, one note added.
C16_OneEditOfEachKind ==
    /\ (EndedCall("time_shift") /\ Len(CallerDf) >= 1)
       => /\ result.kind = "returned" /\ result.ref # CallerObj
          /\ OneRowEdited(CallerDf, ResultDf, MovedInTime)
    /\ (EndedCall("onset_shift") /\ Len(CallerDf) >= 1)
       => /\ result.kind = "returned" /\ result.ref # CallerObj
          /\ OneRowEdited(CallerDf, ResultDf, OnsetMoved)
    /\ (EndedCall("offset_shift") /\ Len(CallerDf) >= 1)
       => /\ result.kind = "returned" /\ result.ref # CallerObj
          /\ OneRowEdited(CallerDf, ResultDf, OffsetMoved)
    /\ EndedCall("add_note")
       => /\ result.kind = "returned" /\ result.ref # CallerObj
          /\ OneNoteAdded(CallerDf, ResultDf)

(***************************************************************************)
(* Writers of paths. mdtk.filesystem_utils: download_file, make_directory, *)
(* extract_zip, copy_file; mdtk.downloaders: DataDownloader.download_file, *)
(* PPDDSept2018Monophonic.__init__ and download_and_extract_zips;          *)
(* mdtk.midi: df_to_csv, midi_to_csv, midi_dir_to_csv, df_to_midi.         *)
(* The target of a call is the path it would write: dest, path,            *)
(* out_path/<zip name>, output_path/<file name>, base_path, cache_loc,     *)
(* csv_path, midi_path. What a path holds is "absent" or a content; the    *)
(* source (the url's file, the zip's tree, the file to copy, the data      *)
(* frame to write) holds a content too.                                    *)
(***************************************************************************)
Contents == {"a", "b"}
Absent == "absent"
Empty == "empty"          \* a directory just made
Merged == "merged"        \* a tree written into another one
Truncated == "truncated"  \* a download that stopped short

\* How the fetch of urlretrieve ends: the file arrives; the server answers with
\* an error status (HTTPError); no connection (URLError); a url without a
\* scheme (ValueError "unknown url type"); fewer bytes than announced
\* (ContentTooShortError, raised after the bytes read were written to dest).
FetchOutcomes == {"ok", "HTTPError", "URLError", "ValueError", "ContentTooShortError"}

\* overwrite: True, False, None, or a value that is none of them
OverwriteValues == {"True", "False", "None", "yes"}

\* Python's truth value of overwrite
Truthy(overwrite) == overwrite \in {"True", "yes"}

\* self.download_urls: the three PPDD archives, or a list a caller has set
DownloadUrls == 3
UrlCounts == {0, 1, DownloadUrls}

\* print(...) to stdout
FsPrint(f) == [f EXCEPT !.printed = @ + 1]

\* print(..., file=sys.stderr)
FsPrintErr(f) == [f EXCEPT !.stderr = @ + 1]

\* if verbose: print(...)
Verbose(f) == IF f.verbose THEN FsPrint(f) ELSE f

FsReturn(f) == [f EXCEPT !.pc = "returned"]
FsRaise(f, exc) == [f EXCEPT !.pc = "raised", !.exc = exc]
FsWarn(f) == [f EXCEPT !.warnings = @ + 1]
FsWrite(f, content) == [f EXCEPT !.target = content, !.written = TRUE]

\* urllib.request.urlretrieve(source, dest) inside try / except
\* urllib.error.HTTPError, in a module that has only `import urllib`: when no
\* other import of the process has loaded urllib.request, the attribute lookup
\* raises AttributeError. The handler catches HTTPError alone: it reports it,
\* on stderr or on stdout, and raises it again; every other failure of the
\* fetch leaves the call as it is, unreported.
Urlretrieve(f, to_stderr) ==
    IF ~f.urllib_request
    THEN FsRaise(f, "AttributeError")
    ELSE IF f.fetch = "ok"
    THEN FsReturn(FsWrite(f, f.source))
    ELSE IF f.fetch = "HTTPError"
    THEN FsRaise(IF to_stderr THEN FsPrintErr(f) ELSE FsPrint(f), "HTTPError")
    ELSE IF f.fetch = "ContentTooShortError"
    THEN FsRaise(FsWrite(f, Truncated), "ContentTooShortError")
    ELSE FsRaise(f, f.fetch)

\* filesystem_utils.py lines 11-26
download_file(f0) ==
    LET f == Verbose([f0 EXCEPT !.op = "download_file"])
    IN IF f.target # Absent /\ f.overwrite = "None"
       THEN FsReturn(FsWarn(f))
       ELSE IF f.target # Absent /\ ~Truthy(f.overwrite)
       THEN FsRaise(f, "OSError")
       ELSE Urlretrieve(f, TRUE)

\* filesystem_utils.py lines 29-63
make_directory(f0) ==
    LET f == Verbose([f0 EXCEPT !.op = "make_directory"])
    IN IF f.target = Absent
       THEN FsReturn(FsWrite(f, Empty))
       ELSE IF f.overwrite = "True"
       THEN FsReturn(FsWrite(FsPrint(f), Empty))
       ELSE IF f.overwrite = "None"
       THEN FsReturn(FsWarn(f))
       ELSE IF f.overwrite = "False"
       THEN FsRaise(f, "FileExistsError")
       ELSE FsRaise(f, "ValueError")

\* filesystem_utils.py lines 66-87
extract_zip(f0) ==
    LET f == Verbose([f0 EXCEPT !.op = "extract_zip"])
    IN IF f.target = Absent
       THEN FsReturn(FsWrite(f, f.source))
       ELSE IF f.overwrite = "True"
       THEN FsReturn(FsWrite(FsWarn(f), f.source))
       ELSE IF f.overwrite = "None"
       THEN FsReturn(FsWarn(f))
       ELSE IF f.overwrite = "False"
       THEN FsRaise(f, "FileExistsError")
       ELSE \* no branch taken: extractall writes into the existing tree
            FsReturn(FsWrite(f, IF f.target = f.source THEN f.source ELSE Merged))

\* filesystem_utils.py lines 90-101
copy_file(f0) ==
    LET f == [f0 EXCEPT !.op = "copy_file"]
    IN IF f.target = Absent
       THEN FsReturn(FsWrite(f, f.source))
       ELSE IF f.overwrite = "True"
       THEN FsReturn(FsWrite(f, f.source))
       ELSE IF f.overwrite = "None"
       THEN FsReturn(f)
       ELSE IF f.overwrite = "False"
       THEN FsRaise(f, "FileExistsError")
       ELSE FsReturn(f)

\* downloaders.py lines 42-57: the static method the downloader classes call;
\* it prints where filesystem_utils.download_file warns
DataDownloader_download_file(f0) ==
    LET f == Verbose([f0 EXCEPT !.op = "DataDownloader.download_file"])
    IN IF f.target # Absent /\ f.overwrite = "None"
       THEN FsReturn(FsPrint(f))
       ELSE IF f.target # Absent /\ ~Truthy(f.overwrite)
       THEN FsRaise(f, "OSError")
       ELSE Urlretrieve(f, FALSE)

\* downloaders.py lines 101-103: cache_loc is made when it is not there
PPDDSept2018Monophonic_init(f0) ==
    LET f == [f0 EXCEPT !.op = "PPDDSept2018Monophonic.__init__"]
    IN IF f.target = Absent THEN FsReturn(FsWrite(f, Empty)) ELSE FsReturn(f)

\* downloaders.py lines 125-128, one url: the file base_path/<filename> is
\* downloaded with verbose left at True; d is the call so far, file what the
\* file's path holds
DownloadInto(d, file) ==
    LET g == DataDownloader_download_file(
                 [d EXCEPT !.target = file, !.verbose = TRUE, !.written = FALSE])
    IN [d EXCEPT !.printed = g.printed,
                 !.pc = IF g.pc = "raised" THEN "raised" ELSE d.pc,
                 !.exc = g.exc,
                 !.written = d.written \/ g.written,
                 !.target = IF ~g.written THEN d.target
                            ELSE IF d.target = Empty THEN g.target
                            ELSE Merged]

\* downloaders.py lines 107-128: base_path is made under the overwrite policy
\* (printing, not warning), then every url is downloaded into it with the same
\* overwrite value. A file can be there already only in a directory that was
\* left as it was.
download_and_extract_zips(f0) ==
    LET f == [f0 EXCEPT !.op = "download_and_extract_zips"]
        file == IF f.target # Absent /\ f.overwrite = "None" /\ f.file_in_dir
                THEN f.existing ELSE Absent
        Loop[k \in 0..f.urls] ==
            IF k = 0
            THEN IF f.target = Absent THEN FsWrite(f, Empty)
                 ELSE IF f.overwrite = "True" THEN FsWrite(FsPrint(f), Empty)
                 ELSE IF f.overwrite = "None" THEN FsPrint(f)
                 ELSE IF f.overwrite = "False" THEN FsRaise(f, "FileExistsError")
                 ELSE FsRaise(f, "ValueError")
            ELSE IF Loop[k - 1].pc = "raised" THEN Loop[k - 1]
            ELSE DownloadInto(Loop[k - 1], file)
        done == Loop[f.urls]
    IN IF done.pc = "raised" THEN done ELSE FsReturn(done)

\* midi.py lines 125-150: nothing is written for None or an empty data frame;
\* otherwise the csv is written over whatever the path holds
df_to_csv(f0) ==
    LET f == [f0 EXCEPT !.op = "df_to_csv"]
    IN IF f.df_empty THEN FsReturn(f) ELSE FsReturn(FsWrite(f, f.source))

\* midi.py lines 79-122, warn left at False: a file that does not parse, or
\* that holds no notes, gives a warning and None; nothing is written
midi_to_df(f0) ==
    LET f == [f0 EXCEPT !.op = "midi_to_df"]
    IN IF f.df_empty THEN FsReturn(FsWarn(f)) ELSE FsReturn(f)

\* midi.py lines 63-76: df_to_csv(midi_to_df(midi_path), csv_path)
midi_to_csv(f0) == [df_to_csv(midi_to_df(f0)) EXCEPT !.op = "midi_to_csv"]

\* midi.py lines 20-60: midi_to_csv for every *.mid file the glob finds in the
\* directory, none or one here (the progress bar of tqdm is left out)
midi_dir_to_csv(f0) ==
    IF f0.midi_files = 0
    THEN FsReturn([f0 EXCEPT !.op = "midi_dir_to_csv"])
    ELSE [midi_to_csv(f0) EXCEPT !.op = "midi_dir_to_csv"]

\* midi.py lines 153-242, with excerpt_start >= 0: of an empty data frame
\* df.track.max() is NaN and [None] * (NaN + 1) raises TypeError; otherwise
\* midi.write(midi_path) writes over whatever the path holds
df_to_midi(f0) ==
    LET f == [f0 EXCEPT !.op = "df_to_midi"]
    IN IF f.df_empty THEN FsRaise(f, "TypeError") ELSE FsReturn(FsWrite(f, f.source))

FsFrame == UNCHANGED <<heap, pc, call, frame, result, ClassifierVars, gp>>

DownloadFile == fs.pc = "start" /\ fs' = download_file(fs) /\ FsFrame

MakeDirectory == fs.pc = "start" /\ fs' = make_directory(fs) /\ FsFrame

ExtractZip == fs.pc = "start" /\ fs' = extract_zip(fs) /\ FsFrame

CopyFile == fs.pc = "start" /\ fs' = copy_file(fs) /\ FsFrame

DataDownloaderDownloadFile ==
    fs.pc = "start" /\ fs' = DataDownloader_download_file(fs) /\ FsFrame

PPDDInit == fs.pc = "start" /\ fs' = PPDDSept2018Monophonic_init(fs) /\ FsFrame

DownloadAndExtractZips ==
    fs.pc = "start" /\ fs' = download_and_extract_zips(fs) /\ FsFrame

MidiToDf == fs.pc = "start" /\ fs' = midi_to_df(fs) /\ FsFrame

DfToCsv == fs.pc = "start" /\ fs' = df_to_csv(fs) /\ FsFrame

MidiToCsv == fs.pc = "start" /\ fs' = midi_to_csv(fs) /\ FsFrame

MidiDirToCsv == fs.pc = "start" /\ fs' = midi_dir_to_csv(fs) /\ FsFrame

DfToMidi == fs.pc = "start" /\ fs' = df_to_midi(fs) /\ FsFrame

InitFiles ==
    /\ heap = [o \in ObjIds |-> <<>>]
    /\ pc = "idle"
    /\ call = NoCall
    /\ frame = NoFrame
    /\ result = NoResult
    /\ ClassifierIdle
    /\ gp = NoGp
    /\ \E existing \in {Absent} \cup Contents, source \in Contents,
          fetch \in FetchOutcomes, urllib_request \in BOOLEAN,
          overwrite \in OverwriteValues, verbose \in BOOLEAN,
          file_in_dir \in BOOLEAN, urls \in UrlCounts, df_empty \in BOOLEAN,
          midi_files \in {0, 1} :
          fs = [pc |-> "start", exc |-> "none", op |-> "none",
                existing |-> existing, target |-> existing,
                source |-> source, fetch |-> fetch,
                urllib_request |-> urllib_request,
                overwrite |-> overwrite, verbose |-> verbose,
                file_in_dir |-> file_in_dir, urls |-> urls, df_empty |-> df_empty,
                midi_files |-> midi_files,
                written |-> FALSE, warnings |-> 0, printed |-> 0, stderr |-> 0]

NextFiles ==
    \/ DownloadFile
    \/ MakeDirectory
    \/ ExtractZip
    \/ CopyFile
    \/ DataDownloaderDownloadFile
    \/ PPDDInit
    \/ DownloadAndExtractZips
    \/ MidiToDf
    \/ DfToCsv
    \/ MidiToCsv
    \/ MidiDirToCsv
    \/ DfToMidi

SpecFiles == InitFiles /\ [][NextFiles]_vars

(***************************************************************************)
(* The overwrite policy (SpecFiles).                                       *)
(***************************************************************************)
\* A call has ended whose target existed; a download's fetch went well
EndedOnExisting(op) ==
    /\ fs.pc \in {"returned", "raised"}
    /\ fs.op = op
    /\ fs.existing # Absent
    /\ (op = "download_file" => fs.fetch = "ok")

\* What the call puts in the place of the target
Replacement(op) == IF op = "make_directory" THEN Empty ELSE fs.source

PolicyTrue(op) ==
    fs.overwrite = "True"
    => fs.pc = "returned" /\ fs.written /\ fs.target = Replacement(op)

PolicyFalse ==
    fs.overwrite = "False"
    => fs.pc = "raised" /\ ~fs.written /\ fs.target = fs.existing

PolicyNone ==
    fs.overwrite = "None"
    => /\ fs.pc = "returned" /\ ~fs.written /\ fs.target = fs.existing
       /\ fs.warnings >= 1

OverwritePolicy(op) ==
    EndedOnExisting(op) => (PolicyTrue(op) /\ PolicyFalse /\ PolicyNone)

\* C17: for download_file, make_directory, extract_zip and copy_file, when the
\* target exists: with overwrite = True it is replaced; with overwrite = False
\* the call raises and the target is unchanged; with overwrite unset (None) the
\* target is unchanged and a warning is emitted.
C17_OverwritePolicy ==
    \A op \in {"download_file", "make_directory", "extract_zip", "copy_file"} :
        OverwritePolicy(op)

\* What the code does give (C17): all of the policy in make_directory and
\* extract_zip; in download_file all of it when urllib.request is loaded, and
\* the cases False and None when it is not; in copy_file all of it but the
\* warning.
OverwritePolicyInParts ==
    /\ \A op \in {"make_directory", "extract_zip"} : OverwritePolicy(op)
    /\ EndedOnExisting("download_file")
       => /\ PolicyFalse /\ PolicyNone
          /\ fs.urllib_request => PolicyTrue("download_file")
          /\ (~fs.urllib_request /\ fs.overwrite = "True")
             => fs.pc = "raised" /\ fs.exc = "AttributeError" /\ ~fs.written
    /\ EndedOnExisting("copy_file")
       => /\ PolicyTrue("copy_file") /\ PolicyFalse
          /\ fs.overwrite = "None"
             => /\ fs.pc = "returned" /\ ~fs.written /\ fs.target = fs.existing
                /\ fs.warnings = 0

\* The downloaders' own copies of the policy (C17 does not name them) never
\* warn: they print.
DownloadersNeverWarn ==
    fs.op \in {"DataDownloader.download_file", "PPDDSept2018Monophonic.__init__",
               "download_and_extract_zips"}
    => fs.warnings = 0

\* The midi writers never ask: whenever there are notes to write, the target
\* is written over whatever it held; their one warning is midi_to_df's, for a
\* file without notes.
MidiWritersOverwrite ==
    (fs.pc = "returned" /\ fs.op \in {"df_to_csv", "midi_to_csv", "df_to_midi"})
    => /\ ~fs.df_empty => (fs.written /\ fs.target = fs.source)
       /\ fs.df_empty => (~fs.written /\ fs.target = fs.existing)
       /\ fs.warnings = (IF fs.op = "midi_to_csv" /\ fs.df_empty THEN 1 ELSE 0)

(***************************************************************************)
(* The windows get_proportions visits (SpecProportions).                   *)
(***************************************************************************)
\* C18: for every length > 0 the window loop of get_proportions comes to its
\* end having visited the windows [k * length, min((k + 1) * length, end)),
\* k = 0, 1, ..., in increasing order, where end is the latest note offset over
\* the ground truth and the transcription: the windows do not overlap, their
\* union is [0, end), and each is visited exactly once.
C18_AllWindowsVisited ==
    (GpEnded /\ gp.length > 0 /\ gp.end_time # NaN) => gp.visited = AllWindows

\* What the code does give (C18): the windows visited are the first ones of
\* that partition, in order, each once; all of them when the call returns.
VisitedWindowsArePrefix ==
    (gp.pc \in {"loop", "returned", "raised"} /\ gp.end_time # NaN)
    => /\ gp.end_time[1] = LatestOffset
       /\ Len(gp.visited) <= Len(AllWindows)
       /\ gp.visited = SubSeq(AllWindows, 1, Len(gp.visited))
       /\ gp.pc = "returned" => gp.visited = AllWindows

(***************************************************************************)
(* Duration differences in get_note_degs (SpecClassify).                   *)
(***************************************************************************)
OnsetDelta == Abs(gt_note.onset - trans_note.onset)
DurDelta == Abs(gt_note.dur - trans_note.dur)
OffsetDelta == Abs((gt_note.onset + gt_note.dur) - (trans_note.onset + trans_note.dur))

OnsetOrOffsetMarked == Deg("onset_shift") = 1 \/ Deg("offset_shift") = 1

\* C19 as claimed: whenever the durations of the two notes differ by at least
\* 40, get_note_degs marks at least one of onset_shift and offset_shift.
C19_DurationDifferenceMarked ==
    (call.name = "get_note_degs" /\ DurDelta >= 40) => OnsetOrOffsetMarked

\* C19 amended: when the durations differ by at least 40, at least one of
\* onset_shift and offset_shift is marked exactly when the onsets or the
\* offsets differ by at least 40; that is so whenever the durations differ by
\* at least 80.
C19_MarkedWhenOnsetOrOffsetMoved ==
    (call.name = "get_note_degs" /\ DurDelta >= 40)
    => /\ OnsetOrOffsetMarked <=> (OnsetDelta >= 40 \/ OffsetDelta >= 40)
       /\ DurDelta >= 80 => OnsetOrOffsetMarked

\* C19 witness: the durations differ by 80 and the onsets by less than 40, and
\* offset_shift alone is marked.
C19_Witness ==
    /\ call.name = "get_note_degs"
    /\ DurDelta >= 80
    /\ OnsetDelta < 40
    /\ Deg("onset_shift") = 0
    /\ Deg("offset_shift") = 1

(***************************************************************************)
(* Non-empty excerpts (SpecClassify, SpecProportions).                     *)
(***************************************************************************)
\* The window visited last was evaluated, and both its excerpts hold notes
EvaluatedNonEmptyWindow ==
    /\ gp.pc \in {"loop", "returned", "raised"}
    /\ Len(gp.visited) > 0
    /\ ~TooFewNotes(gt_excerpt, trans_excerpt, gp.min_notes)
    /\ Len(gt_excerpt) > 0
    /\ Len(trans_excerpt) > 0

\* C20: get_excerpt_degs returns the all-zero vector for every pair of
\* non-empty excerpts, so every evaluated window of get_proportions whose two
\* excerpts are non-empty is counted as clean and adds nothing to the
\* accumulated counts.
C20_NonEmptyWindowsClean ==
    EvaluatedNonEmptyWindow
    => /\ gp.excerpt_degs = Zeros
       /\ deg_counts = Zeros
       /\ gp.pc # "raised"
       /\ gp.clean_count >= 1

\* What the code does give (C20), under SpecClassify: the all-zero vector for
\* every pair of non-empty excerpts.
NonEmptyExcerptsAllZero ==
    (call.name = "get_excerpt_degs" /\ Len(gt_excerpt) > 0 /\ Len(trans_excerpt) > 0)
    => deg_counts = Zeros

\* And under SpecProportions: such a window is classified as all-zero and
\* the accumulated counts stay zero.
NonEmptyWindowsAllZero ==
    EvaluatedNonEmptyWindow => (gp.excerpt_degs = Zeros /\ deg_counts = Zeros)

====
